---- MODULE Spec2Model ----
(***************************************************************************)
(* A model of the PCB defect detection demo:                               *)
(*   page2/segtool.py   - the Streamlit page (upload -> detect -> analyze) *)
(*   page2/inference.py - the PCBInference wrapper (load, warm-up,         *)
(*                        predict_image, predict_batch)                    *)
(*                                                                         *)
(* Spec      : one browser session of the page.  One action is one run of  *)
(*             the script from line 1 to its end or to st.rerun().         *)
(* BatchSpec : one call of PCBInference.predict_batch, with the threads of *)
(*             its ThreadPoolExecutor interleaved.                         *)
(* PrepSpec  : one call of PCBInference.preprocess_image on an image of    *)
(*             every size within the bounds.                               *)
(***************************************************************************)
EXTENDS Integers, Sequences, FiniteSets, TLC

VARIABLES
    session_state,   \* st.session_state: detection_result, analysis_result,
                     \* detection_time, processing, analyzing, current_file_id
    uploaded_file,   \* value of the st.file_uploader widget
    dify_api_key,    \* value of the "Dify-Api" text input
    model_cache,     \* st.cache_resource cache of load_inference_model()
    pcb,             \* the PCBInference object load_inference_model() built
    model_env,       \* what the model file / runtime does when loaded
    started,         \* the page has been run at least once
    rerun,           \* st.rerun() was called: a run without clicks is due
    detections,      \* number of process_detection calls so far
    lastRun,         \* history: what the latest script run did
    batch,           \* state of one predict_batch call
    prep             \* state of one preprocess_image call

vars == <<session_state, uploaded_file, dify_api_key, model_cache, pcb,
          model_env, started, rerun, detections, lastRun, batch, prep>>

uiVars == <<session_state, uploaded_file, dify_api_key, model_cache, pcb,
            model_env, started, rerun, detections, lastRun>>

(***************************************************************************)
(* Bounds of the model                                                     *)
(***************************************************************************)
MaxDetections == 3      \* process_detection calls explored per session
MaxTime == 2            \* elapsed detection times are drawn from 1..MaxTime
MaxBatch == 3           \* longest image_list given to predict_batch
MaxWorkersReq == 4      \* largest max_workers value requested
MaxDim == 24            \* largest image side and largest max_size explored

(***************************************************************************)
(* Program constants                                                       *)
(***************************************************************************)
UploadCreated == 201    \* upload_response.status_code != 201
WorkflowOk == 200       \* workflow_response.status_code == 200
WorkerCap == 2          \* min(max_workers, 2)
MantissaBits == 53      \* significand of a Python float (IEEE 754 binary64)

None == [none |-> TRUE]

Min(a, b) == IF a < b THEN a ELSE b

(***************************************************************************)
(* Uploaded files.  A file has a name and a byte size; the page identifies *)
(* it by the string f"{name}_{size}".  Strings are sequences of characters.*)
(***************************************************************************)
FileNames == { <<"a">>, <<"a", "_", "1">> }
FileSizes == { 1, 11 }
Files == [name : FileNames, size : FileSizes]

Digit(d) == CASE d = 0 -> "0" [] d = 1 -> "1" [] d = 2 -> "2" [] d = 3 -> "3"
              [] d = 4 -> "4" [] d = 5 -> "5" [] d = 6 -> "6" [] d = 7 -> "7"
              [] d = 8 -> "8" [] d = 9 -> "9"

RECURSIVE Str(_)
Str(n) == IF n < 10 THEN << Digit(n) >> ELSE Str(n \div 10) \o << Digit(n % 10) >>

\* Mutation: the identity leaves the size out.
FileId_NoSize(f) == f.name


FileId(f) == f.name \o << "_" >> \o Str(f.size)

ApiKeys == { <<>>, <<"k">> }
DefaultApiKey == <<"k">>

(***************************************************************************)
(* inference.py: PCBInference.__init__ / load_model                        *)
(***************************************************************************)
ModelEnvs == { "ok", "missing", "load_raises", "warmup_raises" }

Uninitialized == [state |-> "Uninitialized", model |-> "None", warmed |-> FALSE]

\* Mutation: load_model swallows a failing warm-up.
Construct_NoWarmupCheck(env) ==
    CASE env = "missing"       -> [state |-> "Failed", model |-> "None", warmed |-> FALSE]
      [] env = "load_raises"   -> [state |-> "Failed", model |-> "None", warmed |-> FALSE]
      [] env = "warmup_raises" -> [state |-> "Ready",  model |-> "YOLO", warmed |-> FALSE]
      [] OTHER                 -> [state |-> "Ready",  model |-> "YOLO", warmed |-> TRUE]

\* The object after __init__ has run; state Failed means __init__ raised.
Construct(env) ==
    CASE env = "missing"       -> [state |-> "Failed", model |-> "None", warmed |-> FALSE]
      [] env = "load_raises"   -> [state |-> "Failed", model |-> "None", warmed |-> FALSE]
      [] env = "warmup_raises" -> [state |-> "Failed", model |-> "YOLO", warmed |-> FALSE]
      [] OTHER                 -> [state |-> "Ready",  model |-> "YOLO", warmed |-> TRUE]

\* segtool.py: load_inference_model under st.cache_resource.  Returns the
\* cache and the object after the call.
LoadInferenceModel(cache, obj, env) ==
    IF cache.cached
    THEN [cache |-> cache, pcb |-> obj]
    ELSE LET built == Construct(env)
         IN  [cache |-> [cached |-> TRUE,
                         value  |-> IF built.state = "Failed" THEN None ELSE built],
              pcb   |-> built]

(***************************************************************************)
(* segtool.py: the upload step                                             *)
(***************************************************************************)
UploadStep(ss, f) ==
    IF f = None THEN ss
    ELSE LET current_file_id == [id |-> FileId(f)]
         IN  IF ss.current_file_id = None \/ ss.current_file_id # current_file_id
             THEN [ss EXCEPT !.current_file_id = current_file_id,
                             !.detection_result = None,
                             !.analysis_result = None,
                             !.detection_time = None]
             ELSE ss

(***************************************************************************)
(* segtool.py: process_detection and the detection button handler          *)
(***************************************************************************)
DetectFaults == { "none", "tmpfile_error", "predict_raises", "no_output" }

\* predict_image is reached when the temp-file write before it succeeded.
PredictCalled(f, inference_model, fault) ==
    f # None /\ inference_model # None /\ fault # "tmpfile_error"

\* Mutation: an exception of predict_image is not caught.
process_detection_NoCatch(f, inference_model, fault, elapsed, n) ==
    IF f # None /\ inference_model # None /\ fault = "none"
    THEN [success |-> TRUE, raised |-> FALSE,
          data |-> [file |-> FileId(f), run |-> n], time |-> [seconds |-> elapsed]]
    ELSE [success |-> FALSE, raised |-> (fault = "predict_raises"), error |-> fault]


process_detection(f, inference_model, fault, elapsed, n) ==
    IF f # None /\ inference_model # None /\ fault = "none"
    THEN [success |-> TRUE, raised |-> FALSE,
          data |-> [file |-> FileId(f), run |-> n], time |-> [seconds |-> elapsed]]
    ELSE [success |-> FALSE, raised |-> FALSE, error |-> fault]

\* Mutation: a successful detection keeps the stored analysis.
DetectHandler_KeepsAnalysis(ss, result) ==
    LET s1 == [ss EXCEPT !.processing = TRUE]
    IN  IF result.raised THEN s1
        ELSE IF result.success
        THEN [s1 EXCEPT !.detection_result = result.data,
                        !.detection_time = result.time,
                        !.processing = FALSE]
        ELSE [s1 EXCEPT !.processing = FALSE]


DetectHandler(ss, result) ==
    LET s1 == [ss EXCEPT !.processing = TRUE]
    IN  IF result.raised THEN s1
        ELSE IF result.success
        THEN [s1 EXCEPT !.detection_result = result.data,
                        !.detection_time = result.time,
                        !.analysis_result = None,
                        !.processing = FALSE]
        ELSE [s1 EXCEPT !.processing = FALSE]

can_detect(ss, f, inference_model) ==
    f # None /\ inference_model # None /\ ~ss.processing

\* lines 253-268: the result image and its download button are rendered
DetectionDisplayed(ss) ==
    ss.detection_result # None /\ ~ss.processing

(***************************************************************************)
(* segtool.py: process_analysis and the analysis block                     *)
(***************************************************************************)
AnalysisEnvs ==
    { [upload |-> "raises"] }
    \cup [upload : {"responds"}, status : {500}, body : {"E1", "E2"}]
    \cup [upload : {"responds"}, status : {UploadCreated}, workflow : {"raises"}]
    \cup [upload : {"responds"}, status : {UploadCreated}, workflow : {"responds"},
          wstatus : {500}]
    \cup [upload : {"responds"}, status : {UploadCreated}, workflow : {"responds"},
          wstatus : {WorkflowOk}, text : {"", "report"}]

\* Mutation: the upload's status code is not looked at.
process_analysis_NoStatusCheck(detection_result, key, env) ==
    LET fail(msg, up, wf) ==
            [success |-> FALSE, error |-> msg, input |-> detection_result,
             uploadCalled |-> up, workflowCalled |-> wf]
    IN  IF detection_result = None
        THEN fail(<<"cannot identify image file">>, FALSE, FALSE)
        ELSE IF env.upload = "raises"
        THEN fail(<<"upload request raised">>, TRUE, FALSE)
        ELSE fail(<<"workflow failed: HTTP ", "400">>, TRUE, TRUE)

\* The dict process_analysis returns, with the calls it issued on the way
\* (history fields input, uploadCalled, workflowCalled).
process_analysis(detection_result, key, env) ==
    LET fail(msg, up, wf) ==
            [success |-> FALSE, error |-> msg, input |-> detection_result,
             uploadCalled |-> up, workflowCalled |-> wf]
    IN  IF detection_result = None
        THEN fail(<<"cannot identify image file">>, FALSE, FALSE)
        ELSE IF env.upload = "raises"
        THEN fail(<<"upload request raised">>, TRUE, FALSE)
        ELSE IF env.status # UploadCreated
        THEN fail(<<"upload failed: ", env.body>>, TRUE, FALSE)
        ELSE IF env.workflow = "raises"
        THEN fail(<<"workflow request raised">>, TRUE, TRUE)
        ELSE IF env.wstatus # WorkflowOk
        THEN fail(<<"workflow failed: HTTP ">> \o Str(env.wstatus), TRUE, TRUE)
        ELSE IF env.text = ""
        THEN fail(<<"workflow returned no text">>, TRUE, TRUE)
        ELSE [success |-> TRUE, analysis_text |-> env.text, input |-> detection_result,
              uploadCalled |-> TRUE, workflowCalled |-> TRUE]

\* Mutation: the button ignores an analysis in flight.
can_analyze_IgnoresInFlight(ss, key) ==
    /\ ss.detection_result # None
    /\ key # <<>>
    /\ ~ss.processing


can_analyze(ss, key) ==
    /\ ss.detection_result # None
    /\ key # <<>>
    /\ ~ss.processing
    /\ ~ss.analyzing

\* Mutation: the block stores the result and forgets the flag.
AnalysisBlock_KeepsAnalyzing(ss, result) ==
    [ss EXCEPT !.analysis_result = result]

\* lines 304-312: the result is stored and the flag reset
AnalysisBlock(ss, result) ==
    [ss EXCEPT !.analysis_result = result, !.analyzing = FALSE]

(***************************************************************************)
(* One run of the script segtool.py, top to bottom                         *)
(***************************************************************************)
InitialSession ==
    [detection_result |-> None, analysis_result |-> None, detection_time |-> None,
     processing |-> FALSE, analyzing |-> FALSE, current_file_id |-> None]

NoRun ==
    [kind |-> "none", pre |-> InitialSession, afterUpload |-> InitialSession,
     file |-> None, detect |-> None, analysis |-> None]

\* kind: the user action that triggered the run.  f, key: the widget values
\* the run sees.  detectClick, analyzeClick: the button that was pressed.
\* fault, elapsed, aenv: what the environment does during the run.
ScriptRun(kind, f, key, detectClick, analyzeClick, fault, elapsed, aenv) ==
    LET loaded == LoadInferenceModel(model_cache, pcb, model_env)
        inference_model == loaded.cache.value
        s1 == UploadStep(session_state, f)
        n == detections + 1
        dres == process_detection(f, inference_model, fault, elapsed, n)
        s2 == IF detectClick THEN DetectHandler(s1, dres) ELSE s1
        s3 == IF analyzeClick THEN [s2 EXCEPT !.analyzing = TRUE] ELSE s2
        runsAnalysis == ~detectClick /\ ~analyzeClick /\ s3.analyzing
        ares == process_analysis(s3.detection_result, key, aenv)
        s4 == IF runsAnalysis THEN AnalysisBlock(s3, ares) ELSE s3
    IN  /\ session_state' = s4
        /\ uploaded_file' = f
        /\ dify_api_key' = key
        /\ model_cache' = loaded.cache
        /\ pcb' = loaded.pcb
        /\ started' = TRUE
        /\ rerun' = ((detectClick /\ ~dres.raised) \/ analyzeClick \/ runsAnalysis)
        /\ detections' = IF detectClick THEN n ELSE detections
        /\ lastRun' =
             [kind |-> kind, pre |-> session_state, afterUpload |-> s1, file |-> f,
              detect |-> IF detectClick
                         THEN [hadFile |-> f # None,
                               hadModel |-> inference_model # None,
                               predictCalled |-> PredictCalled(f, inference_model, fault),
                               predictOn |-> loaded.pcb,
                               result |-> dres]
                         ELSE None,
              analysis |-> IF runsAnalysis
                           THEN [arg |-> s3.detection_result, env |-> aenv, result |-> ares]
                           ELSE None]
        /\ UNCHANGED <<model_env, batch, prep>>

\* The environment of the analysis matters only in a run that analyses.
AEnvs == IF session_state.analyzing THEN AnalysisEnvs ELSE { [upload |-> "raises"] }

NoBatch == [pc |-> "unused"]

NoPrep == [pc |-> "unused"]

Init ==
    /\ session_state = InitialSession
    /\ uploaded_file = None
    /\ dify_api_key = DefaultApiKey
    /\ model_cache = [cached |-> FALSE, value |-> None]
    /\ pcb = Uninitialized
    /\ model_env \in ModelEnvs
    /\ started = FALSE
    /\ rerun = FALSE
    /\ detections = 0
    /\ lastRun = NoRun
    /\ batch = NoBatch
    /\ prep = NoPrep

\* The browser opens the page: the first run, no widget touched.
PageLoad ==
    /\ ~started
    /\ \E aenv \in AEnvs :
         ScriptRun("load", uploaded_file, dify_api_key, FALSE, FALSE, "none", 1, aenv)

\* The user puts a file into the uploader (also while a rerun is due).
Upload ==
    /\ started
    /\ \E f \in Files, aenv \in AEnvs :
         ScriptRun("upload", f, dify_api_key, FALSE, FALSE, "none", 1, aenv)

\* The user removes the file from the uploader.
Remove ==
    /\ started
    /\ uploaded_file # None
    /\ \E aenv \in AEnvs :
         ScriptRun("remove", None, dify_api_key, FALSE, FALSE, "none", 1, aenv)

\* The user edits the API key in the sidebar.
SetKey ==
    /\ started
    /\ \E k \in ApiKeys \ {dify_api_key}, aenv \in AEnvs :
         ScriptRun("key", uploaded_file, k, FALSE, FALSE, "none", 1, aenv)

\* The user presses the detection button (rendered enabled iff can_detect).
ClickDetect ==
    /\ started
    /\ detections < MaxDetections
    /\ can_detect(session_state, uploaded_file, model_cache.value)
    /\ \E fault \in DetectFaults, elapsed \in 1..MaxTime, aenv \in AEnvs :
         ScriptRun("detect", uploaded_file, dify_api_key, TRUE, FALSE, fault, elapsed, aenv)

\* The user presses the analysis button (rendered enabled iff can_analyze).
ClickAnalyze ==
    /\ started
    /\ can_analyze(session_state, dify_api_key)
    /\ \E aenv \in AEnvs :
         ScriptRun("analyze", uploaded_file, dify_api_key, FALSE, TRUE, "none", 1, aenv)

\* The run st.rerun() asked for, with the widgets as they are.
Rerun ==
    /\ rerun
    /\ \E aenv \in AEnvs :
         ScriptRun("rerun", uploaded_file, dify_api_key, FALSE, FALSE, "none", 1, aenv)

Next ==
    \/ PageLoad
    \/ Upload
    \/ Remove
    \/ SetKey
    \/ ClickDetect
    \/ ClickAnalyze
    \/ Rerun

Spec == Init /\ [][Next]_vars

\* The run st.rerun() asks for does take place.
FairSpec == Spec /\ WF_vars(Rerun)

(***************************************************************************)
(* inference.py: PCBInference.predict_batch                                *)
(*                                                                         *)
(* batch.pc         where the calling thread is                            *)
(* batch.image_list the inputs: "ok" is a path predict_image succeeds on,  *)
(*                  "missing" a path that does not exist                   *)
(* batch.queue      indices submitted and not yet taken by a worker        *)
(* batch.worker     per pool thread, the index it runs predict_image on    *)
(*                  (0: idle)                                              *)
(* batch.done       per index, the outcome of its finished future          *)
(* batch.results    the list predict_batch builds                          *)
(* batch.order      history: the index each entry of results came from     *)
(***************************************************************************)
ImageKinds == { "ok", "missing" }

ImageLists == UNION { [1..n -> ImageKinds] : n \in 0..MaxBatch }

\* Mutation: the requested value is used as it is.
PoolSize_NoCap(max_workers) == max_workers

\* line 222: min(max_workers, 2)
PoolSize(max_workers) == Min(max_workers, WorkerCap)

\* Mutation: process_single_image has no try/except.
process_single_image_NoCatch(kind) ==
    IF kind = "ok"
    THEN [raised |-> FALSE, value |-> "image"]
    ELSE [raised |-> TRUE, value |-> "None"]

\* lines 200-219: the outcome of one task of the pool
process_single_image(kind) ==
    IF kind = "ok"
    THEN [raised |-> FALSE, value |-> "image"]
    ELSE [raised |-> FALSE, value |-> "None"]

Pending == [pending |-> TRUE]

Running == { w \in DOMAIN batch.worker : batch.worker[w] # 0 }

\* predict_batch is entered: ThreadPoolExecutor(max_workers=...) is built.
BatchStart ==
    /\ batch.pc = "called"
    /\ batch' =
         IF PoolSize(batch.max_workers) <= 0
         THEN [batch EXCEPT !.pc = "raised"]     \* ValueError of the executor
         ELSE [batch EXCEPT !.pc = "submitting",
                            !.worker = [w \in 1..PoolSize(batch.max_workers) |-> 0]]
    /\ UNCHANGED <<uiVars, prep>>

\* executor.submit of the next element of image_list
Submit ==
    /\ batch.pc = "submitting"
    /\ batch.submitted < Len(batch.image_list)
    /\ LET i == batch.submitted + 1
       IN  batch' = [batch EXCEPT !.submitted = i,
                                  !.queue = Append(@, i),
                                  !.pc = IF i = Len(batch.image_list)
                                         THEN "collecting" ELSE "submitting"]
    /\ UNCHANGED <<uiVars, prep>>

\* The list comprehension over an empty image_list submits nothing.
SubmitNone ==
    /\ batch.pc = "submitting"
    /\ Len(batch.image_list) = 0
    /\ batch' = [batch EXCEPT !.pc = "collecting"]
    /\ UNCHANGED <<uiVars, prep>>

\* An idle pool thread takes the oldest queued task and enters predict_image.
WorkerStart ==
    /\ batch.pc \in {"submitting", "collecting"}
    /\ batch.queue # <<>>
    /\ \E w \in DOMAIN batch.worker :
         /\ batch.worker[w] = 0
         /\ batch' = [batch EXCEPT !.worker[w] = Head(batch.queue),
                                   !.queue = Tail(@)]
    /\ UNCHANGED <<uiVars, prep>>

\* A pool thread leaves process_single_image: its future is finished.
WorkerFinish ==
    /\ batch.pc \in {"submitting", "collecting"}
    /\ \E w \in Running :
         LET i == batch.worker[w]
         IN  batch' = [batch EXCEPT !.worker[w] = 0,
                                    !.done[i] = process_single_image(batch.image_list[i])]
    /\ UNCHANGED <<uiVars, prep>>

\* as_completed yields a finished future; results.append(future.result()).
Collect ==
    /\ batch.pc = "collecting"
    /\ \E i \in 1..Len(batch.image_list) :
         /\ batch.done[i] # Pending
         /\ \A k \in 1..Len(batch.order) : batch.order[k] # i
         /\ batch' = IF batch.done[i].raised
                     THEN [batch EXCEPT !.pc = "raised"]
                     ELSE [batch EXCEPT !.results = Append(@, batch.done[i].value),
                                        !.order = Append(@, i)]
    /\ UNCHANGED <<uiVars, prep>>

\* Every future was yielded: the with block ends and results is returned.
Return ==
    /\ batch.pc = "collecting"
    /\ Len(batch.order) = Len(batch.image_list)
    /\ batch' = [batch EXCEPT !.pc = "returned"]
    /\ UNCHANGED <<uiVars, prep>>

BatchInit ==
    /\ session_state = InitialSession
    /\ uploaded_file = None
    /\ dify_api_key = DefaultApiKey
    /\ model_cache = [cached |-> FALSE, value |-> None]
    /\ pcb = Construct("ok")
    /\ model_env = "ok"
    /\ started = FALSE
    /\ rerun = FALSE
    /\ detections = 0
    /\ lastRun = NoRun
    /\ prep = NoPrep
    /\ \E l \in ImageLists, m \in 0..MaxWorkersReq :
         batch = [pc |-> "called", image_list |-> l, max_workers |-> m,
                  submitted |-> 0, queue |-> <<>>, worker |-> <<>>,
                  done |-> [i \in 1..Len(l) |-> Pending],
                  results |-> <<>>, order |-> <<>>]

BatchNext ==
    \/ BatchStart
    \/ Submit
    \/ SubmitNone
    \/ WorkerStart
    \/ WorkerFinish
    \/ Collect
    \/ Return

BatchSpec == BatchInit /\ [][BatchNext]_vars

(***************************************************************************)
(* Python float arithmetic, as far as preprocess_image uses it.            *)
(*                                                                         *)
(* A float is [m |-> bits, e |-> k]: the MantissaBits bits of m, most      *)
(* significant first and the first one 1, read as an integer and multiplied*)
(* by 2^k.  Division and multiplication round to nearest, ties to even.    *)
(***************************************************************************)
RECURSIVE Pow2(_)
Pow2(k) == IF k = 0 THEN 1 ELSE 2 * Pow2(k - 1)

\* The least k with a * 2^k >= b.
RECURSIVE Shift(_, _)
Shift(a, b) == IF a >= b THEN 0 ELSE 1 + Shift(2 * a, b)

\* n more quotient bits of r / b (r < b), followed by the remainder left.
RECURSIVE DivBits(_, _, _)
DivBits(r, b, n) ==
    IF n = 0 THEN <<r>>
    ELSE IF 2 * r >= b
    THEN <<1>> \o DivBits(2 * r - b, b, n - 1)
    ELSE <<0>> \o DivBits(2 * r, b, n - 1)

\* bits + 1; one bit longer when every bit was 1.
RECURSIVE Inc(_)
Inc(bits) ==
    IF bits = <<>> THEN <<1>>
    ELSE IF bits[Len(bits)] = 0
    THEN SubSeq(bits, 1, Len(bits) - 1) \o <<1>>
    ELSE Inc(SubSeq(bits, 1, Len(bits) - 1)) \o <<0>>

\* Round m * 2^e, m of any length >= MantissaBits, to a float.
RoundFloat(m, e, sticky) ==
    LET d == Len(m) - MantissaBits
        kept == SubSeq(m, 1, MantissaBits)
        guard == IF d > 0 THEN m[MantissaBits + 1] ELSE 0
        low == sticky \/ \E k \in (MantissaBits + 2)..Len(m) : m[k] = 1
        up == guard = 1 /\ (low \/ kept[MantissaBits] = 1)
        r == IF up THEN Inc(kept) ELSE kept
    IN  IF Len(r) > MantissaBits
        THEN [m |-> SubSeq(r, 1, MantissaBits), e |-> e + d + 1]
        ELSE [m |-> r, e |-> e + d]

\* a / b for integers 0 < a < b
FloatDiv(a, b) ==
    LET k == Shift(a, b)
        q == DivBits(a * Pow2(k) - b, b, MantissaBits)
    IN  RoundFloat(<<1>> \o SubSeq(q, 1, MantissaBits), -(MantissaBits + k),
                   q[MantissaBits + 1] # 0)

RECURSIVE BinOf(_)
BinOf(c) == IF c = 0 THEN <<>> ELSE BinOf(c \div 2) \o <<c % 2>>

RECURSIVE MulBits(_, _, _, _)
MulBits(bits, x, i, carry) ==
    IF i = 0 THEN BinOf(carry)
    ELSE LET d == x * bits[i] + carry
         IN  IF d < 2
             THEN MulBits(bits, x, i - 1, 0) \o <<d>>
             ELSE MulBits(bits, x, i - 1, d \div 2) \o <<d % 2>>

\* x * f for an integer x >= 1
FloatMul(x, f) == RoundFloat(MulBits(f.m, x, Len(f.m), 0), f.e, FALSE)

RECURSIVE BitsToInt(_)
BitsToInt(bits) ==
    IF bits = <<>> THEN 0
    ELSE 2 * BitsToInt(SubSeq(bits, 1, Len(bits) - 1)) + bits[Len(bits)]

\* int(f) for a float 0 <= f < 2^31
PyInt(f) ==
    IF Len(f.m) + f.e <= 0 THEN 0
    ELSE BitsToInt(SubSeq(f.m, 1, Len(f.m) + f.e))

(***************************************************************************)
(* inference.py: PCBInference.preprocess_image                             *)
(***************************************************************************)
Max(a, b) == IF a > b THEN a ELSE b

ImageModes == { "RGB", "L" }

\* lines 79-81: the size the image is resized to
NewSize(original_size, max_size) ==
    LET ratio == FloatDiv(max_size, Max(original_size[1], original_size[2]))
    IN  << PyInt(FloatMul(original_size[1], ratio)),
           PyInt(FloatMul(original_size[2], ratio)) >>

\* The image preprocess_image returns for an opened image.  Image.resize to
\* a size with a side of 0 either raises or yields an empty image,
\* depending on the Pillow build: degenerate tells which.
preprocess_image(image, max_size, degenerate) ==
    LET rgb == [image EXCEPT !.mode = "RGB"]
        original_size == rgb.size
    IN  IF Max(original_size[1], original_size[2]) > max_size
        THEN LET new_size == NewSize(original_size, max_size)
             IN  IF (new_size[1] = 0 \/ new_size[2] = 0) /\ degenerate = "raises"
                 THEN [raised |-> TRUE]
                 ELSE [raised |-> FALSE, image |-> [rgb EXCEPT !.size = new_size]]
        ELSE [raised |-> FALSE, image |-> rgb]

PrepInit ==
    /\ session_state = InitialSession
    /\ uploaded_file = None
    /\ dify_api_key = DefaultApiKey
    /\ model_cache = [cached |-> FALSE, value |-> None]
    /\ pcb = Construct("ok")
    /\ model_env = "ok"
    /\ started = FALSE
    /\ rerun = FALSE
    /\ detections = 0
    /\ lastRun = NoRun
    /\ batch = NoBatch
    /\ \E w \in 1..MaxDim, h \in 1..MaxDim, m \in 1..MaxDim, mode \in ImageModes :
         prep = [pc |-> "called", image |-> [size |-> <<w, h>>, mode |-> mode],
                 max_size |-> m]

\* preprocess_image runs to its return or to the exception of Image.resize.
Preprocess ==
    /\ prep.pc = "called"
    /\ \E degenerate \in {"raises", "empty"} :
         LET out == preprocess_image(prep.image, prep.max_size, degenerate)
         IN  prep' = [pc |-> IF out.raised THEN "raised" ELSE "returned",
                      image |-> prep.image, max_size |-> prep.max_size, out |-> out]
    /\ UNCHANGED <<uiVars, batch>>

PrepNext == Preprocess

PrepSpec == PrepInit /\ [][PrepNext]_vars

(***************************************************************************)
(* C1.  Whenever the session holds an analysis result, it was computed     *)
(* from the detection result the session holds now: never from an earlier  *)
(* detection result and never from no detection result.                    *)
(***************************************************************************)
C1_AnalysisReflectsStoredDetection ==
    session_state.analysis_result # None =>
        /\ session_state.detection_result # None
        /\ session_state.analysis_result.input = session_state.detection_result

(***************************************************************************)
(* C2.  The upload step: a file whose (name, size) is the recorded one     *)
(* leaves detection_result, detection_time and analysis_result unchanged; a*)
(* file that differs in name or size, or a first file, sets all three to   *)
(* None and records the new identity.                                      *)
(***************************************************************************)
Cleared(ss, f) ==
    /\ ss.detection_result = None
    /\ ss.detection_time = None
    /\ ss.analysis_result = None
    /\ ss.current_file_id = [id |-> FileId(f)]

Kept(pre, post) ==
    /\ post.detection_result = pre.detection_result
    /\ post.detection_time = pre.detection_time
    /\ post.analysis_result = pre.analysis_result

C2_UploadStepEffect ==
    lastRun.file # None =>
        LET pre == lastRun.pre
            post == lastRun.afterUpload
            f == lastRun.file
        IN  /\ pre.current_file_id = None => Cleared(post, f)
            /\ \A g \in Files :
                 pre.current_file_id = [id |-> FileId(g)] =>
                     IF g.name = f.name /\ g.size = f.size
                     THEN Kept(pre, post)
                     ELSE Cleared(post, f)

\* A file of another size replaced one whose detection and analysis were stored.
C2_Witness ==
    /\ lastRun.kind = "upload"
    /\ lastRun.pre.detection_result # None
    /\ lastRun.pre.analysis_result # None
    /\ lastRun.pre.current_file_id # [id |-> FileId(lastRun.file)]
    /\ session_state.detection_result = None

(***************************************************************************)
(* C3.  As claimed: once a Detect run has finished, no analysis result is  *)
(* stored any more, whatever was stored before it.                         *)
(***************************************************************************)
C3_DetectAlwaysClearsAnalysis ==
    (lastRun.kind = "detect" /\ lastRun.pre.analysis_result # None) =>
        session_state.analysis_result = None

(***************************************************************************)
(* C3, amended.  Once a Detect run has finished with success, no analysis  *)
(* result is stored any more.                                              *)
(***************************************************************************)
C3_SuccessfulDetectClearsAnalysis ==
    (lastRun.kind = "detect" /\ lastRun.detect.result.success) =>
        session_state.analysis_result = None

C3_Witness ==
    /\ lastRun.kind = "detect"
    /\ lastRun.detect.result.success
    /\ lastRun.pre.analysis_result # None
    /\ session_state.analysis_result = None

(***************************************************************************)
(* C4.  A Detect run whose process_detection fails leaves detection_result,*)
(* detection_time, analysis_result and current_file_id as they were, has   *)
(* processing False again, and ends at st.rerun() with no exception.       *)
(***************************************************************************)
C4_FailedDetectLeavesState ==
    (lastRun.kind = "detect" /\ ~lastRun.detect.result.success) =>
        /\ session_state.detection_result = lastRun.pre.detection_result
        /\ session_state.detection_time = lastRun.pre.detection_time
        /\ session_state.analysis_result = lastRun.pre.analysis_result
        /\ session_state.current_file_id = lastRun.pre.current_file_id
        /\ session_state.processing = FALSE
        /\ ~lastRun.detect.result.raised
        /\ rerun

\* predict_image raised while a detection and its analysis were stored.
C4_Witness ==
    /\ lastRun.kind = "detect"
    /\ lastRun.detect.result.success = FALSE
    /\ lastRun.detect.result.error = "predict_raises"
    /\ session_state.detection_result # None
    /\ session_state.analysis_result # None

(***************************************************************************)
(* C5.  process_detection is invoked only with an uploaded file and a      *)
(* loaded model, and process_analysis only with a detection result.        *)
(***************************************************************************)
C5_StepsNeedPredecessor ==
    /\ lastRun.detect # None => (lastRun.detect.hadFile /\ lastRun.detect.hadModel)
    /\ lastRun.analysis # None => lastRun.analysis.arg # None

(***************************************************************************)
(* C6.  The Analyze button can be pressed if and only if a detection       *)
(* result is stored, the API key is not empty and no analysis is in flight.*)
(***************************************************************************)
C6_AnalyzeEnabledIff ==
    started =>
        ((ENABLED ClickAnalyze) <=>
            /\ session_state.detection_result # None
            /\ dify_api_key # <<>>
            /\ ~session_state.analyzing)

\* An analysis is in flight, with a detection result and a key present.
C6_Witness ==
    /\ started
    /\ session_state.detection_result # None
    /\ dify_api_key # <<>>
    /\ session_state.analyzing
    /\ ~ENABLED ClickAnalyze

(***************************************************************************)
(* C7.  predict_image runs only on an object whose model is loaded and     *)
(* warmed up; when construction fails the loader yields None, Detect stays *)
(* disabled, and the failed object never becomes Ready.                    *)
(***************************************************************************)
C7_State ==
    /\ (lastRun.detect # None /\ lastRun.detect.predictCalled) =>
           /\ lastRun.detect.predictOn.state = "Ready"
           /\ lastRun.detect.predictOn.model = "YOLO"
           /\ lastRun.detect.predictOn.warmed
    /\ model_cache.value # None =>
           (model_cache.value.model = "YOLO" /\ model_cache.value.warmed)
    /\ (started /\ model_env # "ok") =>
           /\ pcb.state = "Failed"
           /\ model_cache.value = None
           /\ ~can_detect(session_state, uploaded_file, model_cache.value)
           /\ ~ENABLED ClickDetect

C7_WarmedUpBeforeUse ==
    /\ []C7_State
    /\ [][pcb.state = "Failed" => pcb'.state = "Failed"]_vars

\* A Ready model has served a request.
C7_Witness ==
    /\ lastRun.detect # None
    /\ lastRun.detect.predictCalled
    /\ pcb.state = "Ready"

(***************************************************************************)
(* C10.  When the upload call of the analysis answers with a status other  *)
(* than 201, the stored analysis is a failure whose error text contains the*)
(* response body, the workflow call was not issued, analyzing is False     *)
(* again, and detection_result and detection_time are as before the run,   *)
(* so the detection result is still shown with its download button.        *)
(***************************************************************************)
Contains(text, piece) == \E i \in 1..Len(text) : text[i] = piece

UploadRejected ==
    /\ lastRun.analysis # None
    /\ lastRun.analysis.arg # None
    /\ lastRun.analysis.env.upload = "responds"
    /\ lastRun.analysis.env.status # UploadCreated

C10_UploadRejected ==
    UploadRejected =>
        /\ session_state.analysis_result # None
        /\ ~session_state.analysis_result.success
        /\ Contains(session_state.analysis_result.error, lastRun.analysis.env.body)
        /\ ~session_state.analysis_result.workflowCalled
        /\ ~session_state.analyzing
        /\ session_state.detection_result = lastRun.pre.detection_result
        /\ session_state.detection_time = lastRun.pre.detection_time
        /\ DetectionDisplayed(session_state)

C10_Witness ==
    /\ UploadRejected
    /\ lastRun.analysis.env.status = 500
    /\ session_state.analysis_result.error = <<"upload failed: ", "E2">>

(***************************************************************************)
(* C8.  predict_batch over N inputs of which exactly one path is invalid   *)
(* (max_workers at least 1, as by default) returns N entries, one None and *)
(* N-1 images; every other input is processed, and no exception leaves     *)
(* predict_batch.                                                          *)
(***************************************************************************)
Count(seq, v) == Cardinality({ k \in 1..Len(seq) : seq[k] = v })

OneInvalid ==
    /\ batch.pc # "unused"
    /\ batch.max_workers >= 1
    /\ Count(batch.image_list, "missing") = 1

C8_PartialFailureIsolation ==
    OneInvalid =>
        /\ batch.pc # "raised"
        /\ batch.pc # "returned" => ENABLED BatchNext
        /\ batch.pc = "returned" =>
             /\ Len(batch.results) = Len(batch.image_list)
             /\ Count(batch.results, "None") = 1
             /\ Count(batch.results, "image") = Len(batch.image_list) - 1
             /\ \A i \in 1..Len(batch.image_list) :
                  batch.image_list[i] = "ok" => batch.done[i].value = "image"

\* Three inputs, the second invalid, have been returned.
C8_Witness ==
    /\ OneInvalid
    /\ batch.pc = "returned"
    /\ batch.image_list = <<"ok", "missing", "ok">>
    /\ Count(batch.results, "None") = 1

(***************************************************************************)
(* C9.  Whatever max_workers is requested and however long the list is,    *)
(* never more than 2 predict_image calls run at the same time.             *)
(***************************************************************************)
C9_AtMostTwoConcurrent ==
    batch.pc # "unused" => Cardinality(Running) <= 2

\* More than two workers were asked for, two calls run and a third waits.
C9_Witness ==
    /\ batch.pc # "unused"
    /\ batch.max_workers > 2
    /\ Cardinality(Running) = 2
    /\ batch.queue # <<>>

(***************************************************************************)
(* C11.  For every image of width and height at least 1 and every max_size *)
(* at least 1, preprocess_image returns an image whose longer side is at   *)
(* most max_size and whose sides are at least 1; an image that fits keeps  *)
(* its size, any other gets (floor(w*max_size/max(w,h)),                   *)
(* floor(h*max_size/max(w,h))), each side within 1 pixel of the exact      *)
(* proportional value.                                                     *)
(***************************************************************************)
C11_PreprocessSize ==
    prep.pc \in {"returned", "raised"} =>
        LET w == prep.image.size[1]
            h == prep.image.size[2]
            longer == Max(w, h)
        IN  /\ prep.pc = "returned"
            /\ LET new == prep.out.image.size
               IN  /\ Max(new[1], new[2]) <= prep.max_size
                   /\ new[1] >= 1 /\ new[2] >= 1
                   /\ longer <= prep.max_size => new = <<w, h>>
                   /\ longer > prep.max_size =>
                        /\ new = << (w * prep.max_size) \div longer,
                                    (h * prep.max_size) \div longer >>
                        /\ new[1] * longer <= w * prep.max_size
                        /\ w * prep.max_size < (new[1] + 1) * longer
                        /\ new[2] * longer <= h * prep.max_size
                        /\ h * prep.max_size < (new[2] + 1) * longer

(***************************************************************************)
(* C12.  The i-th element of the list predict_batch returns is the result  *)
(* (image, or None on failure) of the i-th element of image_list, for      *)
(* every list, every max_workers and every interleaving of the threads.    *)
(***************************************************************************)
C12_ResultsInInputOrder ==
    batch.pc = "returned" =>
        \A i \in 1..Len(batch.results) :
            /\ batch.order[i] = i
            /\ batch.results[i] = process_single_image(batch.image_list[i]).value

(***************************************************************************)
(* C13.  The in-flight flags never stay set.  After every Detect run       *)
(* processing is False again.  Once analyzing is True, an analysis is      *)
(* eventually run, its record stored in analysis_result and analyzing set  *)
(* back to False; process_analysis runs exactly in the steps that take     *)
(* analyzing from True to False.  Whenever no rerun is due, so that the    *)
(* page waits for the user, both flags are False.                          *)
(***************************************************************************)
C13_Idle ==
    /\ lastRun.kind = "detect" => ~session_state.processing
    /\ ~rerun => (~session_state.processing /\ ~session_state.analyzing)

AnalysisStored ==
    /\ ~session_state.analyzing
    /\ lastRun.analysis # None
    /\ session_state.analysis_result = lastRun.analysis.result

C13_FlagsNeverStaySet ==
    /\ []C13_Idle
    /\ [][(lastRun'.analysis # None /\ lastRun' # lastRun)
            <=> (session_state.analyzing /\ ~session_state'.analyzing)]_vars
    /\ [][(session_state.analyzing /\ ~session_state'.analyzing) => AnalysisStored']_vars
    /\ (session_state.analyzing ~> AnalysisStored)

\* The rerun after an Analyze click has stored a failure and reset the flag.
C13_Witness ==
    /\ lastRun.kind = "rerun"
    /\ lastRun.pre.analyzing
    /\ AnalysisStored
    /\ ~session_state.analysis_result.success
    /\ detections > 0

====
